---------------------------- MODULE Spec2Model ----------------------------
(***************************************************************************)
(* Model of the JustAI Jobs backend (src/server.js, src/unnamed/part_000). *)
(*                                                                         *)
(* Every Express handler is an async function: the code between two        *)
(* awaits runs atomically on the event loop, and each `await pool.query`   *)
(* is a point where other requests interleave.  A request is therefore a   *)
(* record with a program counter `pc` naming the statement it is waiting   *)
(* for; one action is the arrival of a request (the synchronous prefix of  *)
(* the handler up to its first await), and one action per await is the     *)
(* database executing the statement followed by the handler's              *)
(* continuation up to the next await or the response.                      *)
(*                                                                         *)
(* `reqs` is the sequence of requests in arrival order; a finished         *)
(* request keeps its response, so that `reqs` is also the observable       *)
(* history of the service.                                                 *)
(***************************************************************************)
EXTENDS Integers, Sequences, FiniteSets, TLC

VARIABLES
    users,          \* table Users, rows in insertion order (never deleted)
    jobs,           \* table Jobs
    payments,       \* table Payments
    reviews,        \* table Reviews
    applications,   \* table Applications
    contactMessages,\* table ContactMessages
    reqs,           \* requests in arrival order, with their responses
    now,            \* wall clock, in hours
    uniqueEmail     \* schema: is there a UNIQUE constraint on Users.email

vars == <<users, jobs, payments, reviews, applications, contactMessages, reqs, now,
          uniqueEmail>>

\* The tables the register, login, listing, search and per-user handlers leave
\* as they are.
tables == <<jobs, payments, reviews, applications, contactMessages>>

-----------------------------------------------------------------------------
(* JavaScript values *)

\* `undefined`: a field the JSON body (or the query string) does not carry.
Missing == "<undefined>"

\* SQL NULL / JavaScript null.
Null == "<null>"

\* !v for the values a body field takes here: undefined, null and "" are falsy.
Falsy(v) == v = Missing \/ v = Null \/ v = ""

\* v || null
OrNull(v) == IF Falsy(v) THEN Null ELSE v

-----------------------------------------------------------------------------
(* Responses *)

NoData == [none |-> TRUE]

NoToken == [payload |-> [user_id |-> 0, email |-> "", account_type |-> "", iat |-> 0, exp |-> 0],
            key |-> "<none>"]

Response(status, msg) == [status |-> status, msg |-> msg, token |-> NoToken, data |-> NoData]

NoResponse == Response(0, "")

-----------------------------------------------------------------------------
(* Bounds of the model *)

\* Requests per behaviour of the session specification.
MaxReqs == 3


-----------------------------------------------------------------------------
(* Requests *)

NoBody == [name |-> Missing, email |-> Missing, password |-> Missing,
           account_type |-> Missing, role |-> Missing, company |-> Missing]

\* The Authorization header: absent, or a string of space-separated parts of
\* which the handlers read part [1].  `cred` is that part when there is one.
NoHeader == [present |-> FALSE, hasCred |-> FALSE, cred |-> NoToken]

\* The query string of GET /api/jobs/search; a parameter that is given is a
\* text, a sequence of characters.
NoText == [given |-> FALSE, text |-> <<>>]

Text(t) == [given |-> TRUE, text |-> t]

NoQuery == [query |-> NoText, job_type |-> Missing, sort |-> Missing]

\* A request: its input (route, body, query string, header), the handler's position `pc`,
\* the handler's locals `uid` (decoded user id) and `found` (rows of its
\* first SELECT), whether its catch block was entered (`err`), the statements
\* it has issued, and its response.
\* `at` is the time of arrival, `seen` the number of Users rows at arrival and
\* `doneAt` the number of requests that had arrived when the response was
\* sent: they order the events of the history and no handler reads them.
Request(route, body, auth, pc, resp, stmts, seen, doneAt) ==
    [route |-> route, body |-> body, query |-> NoQuery, auth |-> auth, pc |-> pc,
     resp |-> resp,
     stmts |-> stmts, uid |-> 0, found |-> 0, err |-> FALSE,
     at |-> now, seen |-> seen, doneAt |-> doneAt]

Done(i) == reqs[i].pc = "done"

\* res.status(..).json(..): the handler of request i answers.
Respond(i, resp) ==
    [reqs EXCEPT ![i].pc = "done", ![i].resp = resp, ![i].doneAt = Len(reqs)]

\* catch (error) { console.error(..); res.status(500).json(..) }
Throw(i, resp) ==
    [reqs EXCEPT ![i].pc = "done", ![i].resp = resp, ![i].doneAt = Len(reqs),
                 ![i].err = TRUE]

-----------------------------------------------------------------------------
(* Users *)

\* SELECT * FROM Users WHERE email = $1: the rows in table order.
UsersByEmail(email) == SelectSeq(users, LAMBDA u : u.email = email)

\* SELECT .. FROM Users WHERE user_id = $1
UsersById(id) == SelectSeq(users, LAMBDA u : u.user_id = id)

\* NewUser with the values bound to the wrong columns: the order of part_000's
\* column list ($1 name, $2 email, $3 password, $4 account_type, $5 role,
\* $6 company) under server.js's order of values.
NewUser_ColumnSlip(b) ==
    [user_id |-> Len(users) + 1,
     account_type |-> b.name, name |-> b.email, email |-> b.email,
     password |-> b.account_type, company |-> OrNull(b.company), role |-> OrNull(b.role),
     status |-> "Active", created_at |-> now]

\* The row INSERT INTO Users .. VALUES ($1..$6, 'Active', NOW(), NOW()) adds;
\* user_id is the table's serial key.
NewUser(b) ==
    [user_id |-> Len(users) + 1,
     account_type |-> b.account_type, name |-> b.name, email |-> b.email,
     password |-> b.password, company |-> OrNull(b.company), role |-> OrNull(b.role),
     status |-> "Active", created_at |-> now]

\* Users.email UNIQUE: the INSERT of a second row with the email is refused.
UniqueViolation(email) == uniqueEmail /\ Len(UsersByEmail(email)) > 0

-----------------------------------------------------------------------------
(* POST /api/register *)

RegisterRoutes == {"register", "register0"}

\* ValidateRegister without the Employer branch.
ValidateRegister_NoEmployerCheck(b) ==
    IF Falsy(b.name) \/ Falsy(b.email) \/ Falsy(b.password) \/ Falsy(b.account_type)
    THEN Response(400, "Name, email, password, and account type are required.")
    ELSE NoResponse

\* The presence checks of both variants of the handler: a response, or
\* NoResponse when the body passes.
ValidateRegister(b) ==
    IF Falsy(b.name) \/ Falsy(b.email) \/ Falsy(b.password) \/ Falsy(b.account_type)
    THEN Response(400, "Name, email, password, and account type are required.")
    ELSE IF b.account_type = "Employer" /\ (Falsy(b.role) \/ Falsy(b.company))
    THEN Response(400, "Role and Company are required for Employers.")
    ELSE NoResponse

RegisterEmailTaken == Response(400, "Email already registered.")

RegisterCreated == Response(201, "User registered successfully.")

\* Catch with the error's message in the body.
Catch_ErrorDetail(route) ==
    Response(500, "duplicate key value violates unique constraint")

\* The catch block of each handler: its fixed 500 response.
Catch(route) ==
    CASE route \in RegisterRoutes -> Response(500, "Server error during registration.")
      [] route \in {"login", "login0"} -> Response(500, "Server error during login.")
      [] route = "top-salary" -> Response(500, "Server error fetching top salary jobs.")
      [] route = "newest" -> Response(500, "Server error fetching newest jobs.")
      [] route \in {"search", "search0"} -> Response(500, "Server error searching jobs.")
      [] route \in {"searchB", "searchB0"} ->
             [status |-> 500, msg |-> "", token |-> NoToken,
              data |-> [error |-> "Server error"]]
      [] route = "me" -> Response(500, "Server error fetching dashboard profile.")
      [] route = "me2" -> Response(500, "Server error fetching user profile.")
      [] route = "support" -> Response(500, "Server error submitting support inquiry.")
      [] route \in {"reviews", "reviews2"} -> Response(500, "Server error fetching reviews.")
      [] route = "applications" -> Response(500, "Server error fetching worker applications.")
      [] route = "job-applications" ->
             Response(500, "Server error fetching employer job applications.")

\* A request arrives: destructure the body, validate, issue the existence check.
RegisterArrive(route, b) ==
    /\ Len(reqs) < MaxReqs
    /\ LET v == ValidateRegister(b)
           i == Len(reqs) + 1
       IN reqs' = Append(reqs,
              IF v # NoResponse
              THEN Request(route, b, NoHeader, "done", v, <<>>, Len(users), i)
              ELSE Request(route, b, NoHeader, "exists", NoResponse,
                           <<"SELECT Users BY email">>, Len(users), 0))
    /\ UNCHANGED <<users, tables, now, uniqueEmail>>

\* RegisterExists without the rows.length test: the INSERT is always issued.
RegisterExists_NoCheck(i) ==
    /\ reqs[i].route \in RegisterRoutes /\ reqs[i].pc = "exists"
    /\ reqs' = [reqs EXCEPT ![i].found = Len(UsersByEmail(reqs[i].body.email)),
                            ![i].pc = "insert",
                            ![i].stmts = Append(@, "INSERT Users")]
    /\ UNCHANGED <<users, tables, now, uniqueEmail>>

\* The existence check returns: answer 400 when a row has the email,
\* otherwise issue the INSERT.
RegisterExists(i) ==
    /\ reqs[i].route \in RegisterRoutes /\ reqs[i].pc = "exists"
    /\ LET n == Len(UsersByEmail(reqs[i].body.email))
           r == [reqs EXCEPT ![i].found = n]
       IN reqs' = IF n > 0
                  THEN [r EXCEPT ![i].pc = "done", ![i].resp = RegisterEmailTaken,
                                 ![i].doneAt = Len(reqs)]
                  ELSE [r EXCEPT ![i].pc = "insert",
                                 ![i].stmts = Append(@, "INSERT Users")]
    /\ UNCHANGED <<users, tables, now, uniqueEmail>>

\* RegisterInsertOutcome with the error of the INSERT swallowed.
RegisterInsertOutcome_Swallowed(refused, route) == RegisterCreated

\* The status the handler sends after the INSERT was carried out.
RegisterInsertOutcome(refused, route) ==
    IF refused THEN Catch(route) ELSE RegisterCreated

\* The INSERT is executed: the row is added and the request answered 201,
\* or the database refuses it and the catch block answers 500.
RegisterInsert(i) ==
    /\ reqs[i].route \in RegisterRoutes /\ reqs[i].pc = "insert"
    /\ LET refused == UniqueViolation(reqs[i].body.email) IN
         /\ users' = IF refused THEN users ELSE Append(users, NewUser(reqs[i].body))
         /\ reqs' = IF refused
                    THEN Throw(i, RegisterInsertOutcome(refused, reqs[i].route))
                    ELSE Respond(i, RegisterInsertOutcome(refused, reqs[i].route))
    /\ UNCHANGED <<tables, now, uniqueEmail>>

-----------------------------------------------------------------------------
(* Tokens (jsonwebtoken) *)

\* process.env.JWT_SECRET
JWT_SECRET == "secret"

\* { expiresIn: '24h' }
ExpiresInHours == 24

\* jwt.sign(payload, key, { expiresIn }): the payload with iat and exp, and a
\* signature that only the same key over the same payload reproduces.
Sign(claims, key) ==
    [payload |-> [user_id |-> claims.user_id, email |-> claims.email,
                  account_type |-> claims.account_type,
                  iat |-> now, exp |-> now + ExpiresInHours],
     key |-> key]

\* jwt.verify(token, key) succeeds: the signature is the key's and the token has
\* not expired.  It throws otherwise, and on a token that is undefined.
Verifies(token, key) ==
    /\ token # NoToken
    /\ token.key = key
    /\ now < token.payload.exp

-----------------------------------------------------------------------------
(* POST /api/login *)

LoginRoutes == {"login", "login0"}

LoginRequired == Response(400, "Email and password are required.")

\* The answer to an email that matches no row.
LoginUnknown == Response(400, "Invalid email or password.")

\* LoginMismatch with a message of its own.
LoginMismatch_Distinct == Response(400, "Incorrect password.")

\* The answer to a password that differs from the stored one.
LoginMismatch == Response(400, "Invalid email or password.")

\* The 200 answer: server.js signs a token, part_000 has none.
LoginOk(route, u) ==
    [status |-> 200, msg |-> "Login successful.",
     token |-> IF route = "login" THEN Sign(u, JWT_SECRET) ELSE NoToken,
     data |-> IF route = "login"
              THEN [user_id |-> u.user_id, name |-> u.name, email |-> u.email,
                    account_type |-> u.account_type, status |-> u.status,
                    company |-> u.company]
              ELSE [user_id |-> u.user_id, name |-> u.name, email |-> u.email,
                    account_type |-> u.account_type]]

LoginArrive(route, b) ==
    /\ Len(reqs) < MaxReqs
    /\ LET i == Len(reqs) + 1
       IN reqs' = Append(reqs,
              IF Falsy(b.email) \/ Falsy(b.password)
              THEN Request(route, b, NoHeader, "done", LoginRequired, <<>>, Len(users), i)
              ELSE Request(route, b, NoHeader, "lookup", NoResponse,
                           <<"SELECT Users BY email">>, Len(users), 0))
    /\ UNCHANGED <<users, tables, now, uniqueEmail>>

\* The handler's continuation on the row the SELECT put first.
LoginCheck(route, b, rows, k) ==
    IF Len(rows) = 0 THEN LoginUnknown
    ELSE IF rows[k].password # b.password THEN LoginMismatch
    ELSE LoginOk(route, rows[k])

\* The SELECT returns.  Without ORDER BY the database may put any of the
\* matching rows first.
LoginLookup(i) ==
    /\ reqs[i].route \in LoginRoutes /\ reqs[i].pc = "lookup"
    /\ LET rows == UsersByEmail(reqs[i].body.email) IN
       \E k \in 1..IF Len(rows) = 0 THEN 1 ELSE Len(rows) :
          reqs' = [Respond(i, LoginCheck(reqs[i].route, reqs[i].body, rows, k))
                     EXCEPT ![i].found = Len(rows)]
    /\ UNCHANGED <<users, tables, now, uniqueEmail>>

-----------------------------------------------------------------------------
(* SQL helpers *)

\* A nullable number, as a query returns it.
Num(n) == [isNull |-> FALSE, val |-> n]

SqlNull == [isNull |-> TRUE, val |-> 0]

\* COALESCE(x, d) without its default: the aggregate as SUM returns it.
Coalesce_Dropped(x, d) == x

\* COALESCE(x, d)
Coalesce(x, d) == IF x.isNull THEN Num(d) ELSE x

RECURSIVE SumSeq(_)
SumSeq(xs) == IF xs = <<>> THEN 0 ELSE Head(xs) + SumSeq(Tail(xs))

\* SUM over the values xs of the selected rows: NULL when there is none.
SqlSum(xs) == IF xs = <<>> THEN SqlNull ELSE Num(SumSeq(xs))

\* The column c of rows.
Column(rows, c) == [n \in DOMAIN rows |-> rows[n][c]]

\* ORDER BY key DESC over the rows S (indices of a table): every order of S
\* in which key does not increase; rows of equal key come in any order.
Orderings(S, key) ==
    {f \in [1..Cardinality(S) -> S] :
        /\ \A a, b \in 1..Cardinality(S) : a # b => f[a] # f[b]
        /\ \A a, b \in 1..Cardinality(S) : a < b => key[f[a]] >= key[f[b]]}

\* LIMIT n
Limit(rows, n) == SubSeq(rows, 1, IF Len(rows) < n THEN Len(rows) ELSE n)

\* TO_CHAR(t, 'YYYY-MM-DD'): the day of a time given in hours.
ToDate(t) == t \div 24

-----------------------------------------------------------------------------
(* Protected routes: GET /api/users/me and /api/users/me/.. *)

BareHeader == [present |-> TRUE, hasCred |-> FALSE, cred |-> NoToken]

\* "Bearer <token>"
Bearer(t) == [present |-> TRUE, hasCred |-> TRUE, cred |-> t]

\* authHeader.split(' ')[1]: the credential, or undefined (NoToken).
Credential(h) == IF h.present /\ h.hasCred THEN h.cred ELSE NoToken

\* The response of the code that runs before the first statement, or
\* NoResponse when the token is accepted.
\* GET /api/users/me: the header test, then jwt.verify inside the try block.
MeAuth(h) ==
    IF ~h.present THEN Response(401, "Authorization header missing.")
    ELSE IF ~Verifies(Credential(h), JWT_SECRET) THEN Catch("me")
    ELSE NoResponse

\* authenticateToken, the middleware of GET /api/users/me/reviews.
AuthenticateToken(h) ==
    IF Credential(h) = NoToken THEN Response(401, "No token provided")
    ELSE IF ~Verifies(Credential(h), JWT_SECRET) THEN Response(403, "Invalid token")
    ELSE NoResponse

\* GET /api/users/me/applications and /job-applications, and the second
\* handlers of /api/users/me/reviews and /api/users/me: the token test, then
\* jwt.verify inside the try block.
ApplicationsAuth(route, h) ==
    IF Credential(h) = NoToken THEN Response(401, "Unauthorized. No token provided.")
    ELSE IF ~Verifies(Credential(h), JWT_SECRET) THEN Catch(route)
    ELSE NoResponse

\* The gate of each protected route.
Auth(route, h) ==
    CASE route = "me" -> MeAuth(h)
      [] route = "reviews" -> AuthenticateToken(h)
      [] route \in {"applications", "job-applications", "me2", "reviews2"} ->
             ApplicationsAuth(route, h)

ProtectedRoutes == {"me", "reviews", "applications", "job-applications"}

ProtectedPaths ==
    {"/api/users/me", "/api/users/me/reviews", "/api/users/me/applications",
     "/api/users/me/job-applications"}

\* The handlers app.get registered for each path, in the order of the file.
Registered(path) ==
    CASE path = "/api/users/me" -> <<"me", "me2">>
      [] path = "/api/users/me/reviews" -> <<"reviews", "reviews2">>
      [] path = "/api/users/me/applications" -> <<"applications">>
      [] path = "/api/users/me/job-applications" -> <<"job-applications">>

\* Handler with the registrations taken last first.
Handler_LastRegistered(path) == Registered(path)[Len(Registered(path))]

\* The handler Express runs for a path: the first registered.  Every handler
\* here answers without calling next(), so a later one of the same path never
\* runs.
Handler(path) == Head(Registered(path))

\* The first statement of each protected handler.
FirstStatement(route) ==
    CASE route = "me" -> "SELECT Users BY user_id"
      [] route = "me2" -> "SELECT Users BY user_id"
      [] route \in {"reviews", "reviews2"} -> "SELECT Reviews BY reviewee_id"
      [] route = "applications" -> "SELECT Applications BY worker_id"
      [] route = "job-applications" -> "SELECT Applications BY employer_id"

\* No user_id among the parameters of the request.
NoUserId == [given |-> FALSE, num |-> 0]

\* A user_id among the parameters of the request (query string or body).
UserId(n) == [given |-> TRUE, num |-> n]

\* ActingId taken from the request's user_id parameter when there is one.
ActingId_FromParameter(h, q) ==
    IF q.given THEN q.num ELSE Credential(h).payload.user_id

\* const user_id = decoded.user_id (req.user.user_id): the handlers read
\* neither req.query nor req.body.
ActingId(h, q) == Credential(h).payload.user_id

\* A request to a protected route, with user_id parameter q, arrives: the
\* gate answers, or the handler takes the acting id and issues its first
\* statement.
ProtectedArriveWith(route, h, q) ==
    /\ Len(reqs) < MaxReqs
    /\ LET v == Auth(route, h)
           i == Len(reqs) + 1
           r == [Request(route, NoBody, h, "done", v, <<>>, Len(users), i)
                     EXCEPT !.query = [user_id |-> q]]
       IN reqs' = Append(reqs,
              IF v # NoResponse
              THEN [r EXCEPT !.err = (v = Catch(route))]
              ELSE [r EXCEPT !.pc = IF route \in {"me", "me2"} THEN "user" ELSE "list",
                             !.resp = NoResponse, !.doneAt = 0,
                             !.stmts = <<FirstStatement(route)>>,
                             !.uid = ActingId(h, q)])
    /\ UNCHANGED <<users, tables, now, uniqueEmail>>

\* The same request without a user_id parameter.
ProtectedArrive(route, h) == ProtectedArriveWith(route, h, NoUserId)

\* The columns the second handler of /api/users/me selects.
Profile(u) ==
    [user_id |-> u.user_id, name |-> u.name, email |-> u.email,
     account_type |-> u.account_type, status |-> u.status, company |-> u.company]

\* res.json(result.rows[0]) of the second handler: the row, or undefined.
ProfileResponse(rows) ==
    [status |-> 200, msg |-> "", token |-> NoToken,
     data |-> IF Len(rows) = 0 THEN Missing ELSE Profile(rows[1])]

\* GET /api/users/me, after the SELECT of the user: 404, or the aggregation
\* query of the account type.  The second handler answers with rows[0].
MeUser(i) ==
    /\ reqs[i].route \in {"me", "me2"} /\ reqs[i].pc = "user"
    /\ LET rows == UsersById(reqs[i].uid)
           r == [reqs EXCEPT ![i].found = Len(rows)]
       IN reqs' = IF reqs[i].route = "me2"
                  THEN [r EXCEPT ![i].pc = "done", ![i].doneAt = Len(reqs),
                                 ![i].resp = ProfileResponse(rows)]
                  ELSE IF Len(rows) = 0
                  THEN [r EXCEPT ![i].pc = "done", ![i].doneAt = Len(reqs),
                                 ![i].resp = Response(404, "User not found.")]
                  ELSE [r EXCEPT ![i].pc = "aggregate",
                                 ![i].stmts = Append(@,
                                     IF rows[1].account_type = "Employer"
                                     THEN "SELECT SUM Payments BY employer_id"
                                     ELSE "SELECT SUM Payments BY worker_id")]
    /\ UNCHANGED <<users, tables, now, uniqueEmail>>

IsPaid(p) == p.status = "Paid"

IsPending(p) == p.status = "Pending"

\* FROM Payments WHERE worker_id = $1
PaymentsOfWorker(id) == SelectSeq(payments, LAMBDA p : p.worker_id = id)

\* The Worker aggregation.
WorkerMetrics(id) ==
    [total_hours_worked |->
         Coalesce(SqlSum(Column(PaymentsOfWorker(id), "hours_worked")), 0),
     total_earnings |->
         Coalesce(SqlSum(Column(SelectSeq(PaymentsOfWorker(id), IsPaid), "amount")), 0),
     pending_payment |->
         Coalesce(SqlSum(Column(SelectSeq(PaymentsOfWorker(id), IsPending), "amount")), 0)]

\* FROM Payments p JOIN Jobs j ON p.job_id = j.job_id WHERE j.employer_id = $1
\* (job_id is the key of Jobs: a payment joins at most one job).
PaymentsOfEmployer(id) ==
    SelectSeq(payments,
              LAMBDA p : \E k \in 1..Len(jobs) :
                            jobs[k].job_id = p.job_id /\ jobs[k].employer_id = id)

\* The Employer aggregation.
EmployerMetrics(id) ==
    [total_hours_worked |->
         Coalesce(SqlSum(Column(PaymentsOfEmployer(id), "hours_worked")), 0),
     total_jobs_paid |->
         Coalesce(SqlSum(Column(SelectSeq(PaymentsOfEmployer(id), IsPaid), "amount")), 0)]

\* dashboardData: the user's columns and the metrics of the account type.
Dashboard(u) ==
    [name |-> u.name, role |-> u.role, company |-> u.company,
     account_type |-> u.account_type,
     metrics |-> IF u.account_type = "Employer" THEN EmployerMetrics(u.user_id)
                 ELSE WorkerMetrics(u.user_id)]

\* GET /api/users/me, after the aggregation query: 200 with the dashboard.
MeAggregate(i) ==
    /\ reqs[i].route = "me" /\ reqs[i].pc = "aggregate"
    /\ reqs' = Respond(i, [status |-> 200, msg |-> "", token |-> NoToken,
                           data |-> Dashboard(UsersById(reqs[i].uid)[1])])
    /\ UNCHANGED <<users, tables, now, uniqueEmail>>

\* u.name of LEFT JOIN Users u ON .. = u.user_id: NULL when no user matches.
UserName(id) == IF Len(UsersById(id)) = 0 THEN Null ELSE UsersById(id)[1].name

\* The job of LEFT JOIN Jobs j ON a.job_id = j.job_id: 0 when none matches.
JobOf(a) ==
    IF \E k \in 1..Len(jobs) : jobs[k].job_id = a.job_id
    THEN CHOOSE k \in 1..Len(jobs) : jobs[k].job_id = a.job_id
    ELSE 0

\* The rows of the three per-user reads, WHERE .. = $1.
ReviewsOf(id) == {k \in 1..Len(reviews) : reviews[k].reviewee_id = id}

ApplicationsOf(id) == {k \in 1..Len(applications) : applications[k].worker_id = id}

JobApplicationsOf(id) ==
    {k \in 1..Len(applications) :
        JobOf(applications[k]) # 0 /\ jobs[JobOf(applications[k])].employer_id = id}

\* The SELECT list of each read.
ReviewRow(k) ==
    [review_body |-> reviews[k].comment, rating |-> reviews[k].rating,
     reviewer_name |-> UserName(reviews[k].reviewer_id),
     review_date |-> ToDate(reviews[k].created_at)]

\* The columns of a job that LEFT JOIN found, NULL when it found none.
NullText == <<Null>>

JobTitle(j) == IF j = 0 THEN NullText ELSE jobs[j].title

JobDescription(j) == IF j = 0 THEN NullText ELSE jobs[j].description

JobSalary(j) == IF j = 0 THEN SqlNull ELSE Num(jobs[j].salary)

ApplicationRow(k) ==
    [job_title |-> JobTitle(JobOf(applications[k])),
     salary |-> JobSalary(JobOf(applications[k])),
     job_description |-> JobDescription(JobOf(applications[k])),
     applied_date |-> ToDate(applications[k].applied_at)]

JobApplicationRow(k) ==
    [status |-> applications[k].status,
     applicant_name |-> UserName(applications[k].worker_id),
     job_title |-> JobTitle(JobOf(applications[k])),
     salary |-> JobSalary(JobOf(applications[k])),
     applied_date |-> ToDate(applications[k].applied_at)]

ReviewTime == [k \in 1..Len(reviews) |-> reviews[k].created_at]

ApplicationTime == [k \in 1..Len(applications) |-> applications[k].applied_at]

\* The result sets a per-user read may return: its rows in each admissible order.
ListResults(route, id) ==
    CASE route \in {"reviews", "reviews2"} ->
           {[ids |-> f, rows |-> [n \in DOMAIN f |-> ReviewRow(f[n])]] :
                f \in Orderings(ReviewsOf(id), ReviewTime)}
      [] route = "applications" ->
           {[ids |-> f, rows |-> [n \in DOMAIN f |-> ApplicationRow(f[n])]] :
                f \in Orderings(ApplicationsOf(id), ApplicationTime)}
      [] route = "job-applications" ->
           {[ids |-> f, rows |-> [n \in DOMAIN f |-> JobApplicationRow(f[n])]] :
                f \in Orderings(JobApplicationsOf(id), ApplicationTime)}

\* A per-user read returns: 200 with the rows.
ListQuery(i) ==
    /\ reqs[i].pc = "list"
    /\ \E res \in ListResults(reqs[i].route, reqs[i].uid) :
          reqs' = Respond(i, [status |-> 200, msg |-> "", token |-> NoToken, data |-> res])
    /\ UNCHANGED <<users, tables, now, uniqueEmail>>

-----------------------------------------------------------------------------
(* GET /api/jobs/top-salary and /api/jobs/newest *)

\* LIMIT 3
ListLimit == 3

\* WHERE job_status = 'Open' left out.
OpenJobs_Any == 1..Len(jobs)

\* WHERE job_status = 'Open'
OpenJobs == {k \in 1..Len(jobs) : jobs[k].job_status = "Open"}

Salary == [k \in 1..Len(jobs) |-> jobs[k].salary]

Created == [k \in 1..Len(jobs) |-> jobs[k].created_at]

\* SELECT title, description, salary, job_type
ListingRow(k) ==
    [title |-> jobs[k].title, description |-> jobs[k].description,
     salary |-> jobs[k].salary, job_type |-> jobs[k].job_type]

ListingRoutes == {"top-salary", "newest"}

\* The handler has no input: it issues its query.
ListingArrive(route) ==
    /\ Len(reqs) < MaxReqs
    /\ reqs' = Append(reqs,
           Request(route, NoBody, NoHeader, "jobs", NoResponse,
                   <<"SELECT Jobs Open LIMIT">>, Len(users), 0))
    /\ UNCHANGED <<users, tables, now, uniqueEmail>>

\* The result sets the query may return: the first rows of the Open jobs in
\* an order of the route's key.
ListingResults(route) ==
    {[ids |-> Limit(f, ListLimit),
      rows |-> [n \in DOMAIN Limit(f, ListLimit) |-> ListingRow(f[n])]] :
        f \in IF route = "top-salary" THEN Orderings(OpenJobs, Salary)
              ELSE Orderings(OpenJobs, Created)}

\* The query returns: 200 with the rows.
ListingQuery(i) ==
    /\ reqs[i].route \in ListingRoutes /\ reqs[i].pc = "jobs"
    /\ \E res \in ListingResults(reqs[i].route) :
          reqs' = Respond(i, [status |-> 200, msg |-> "", token |-> NoToken, data |-> res])
    /\ UNCHANGED <<users, tables, now, uniqueEmail>>

-----------------------------------------------------------------------------
(* GET /api/jobs/search *)

\* `${undefined}` in a template literal
UndefinedText == <<"u", "n", "d", "e", "f", "i", "n", "e", "d">>

\* `%${query}%`
Pattern(q) == <<"%">> \o (IF q.given THEN q.text ELSE UndefinedText) \o <<"%">>

\* Case folding of ILIKE, over the letters of the model.
Lower(c) == CASE c = "A" -> "a" [] c = "B" -> "b" [] OTHER -> c

RECURSIVE Like(_, _)
\* text ILIKE pattern: % is any run of characters, _ any one character.
Like(t, p) ==
    IF p = <<>> THEN t = <<>>
    ELSE IF Head(p) = "%"
         THEN \E k \in 0..Len(t) : Like(SubSeq(t, k + 1, Len(t)), Tail(p))
    ELSE IF t = <<>> THEN FALSE
    ELSE /\ Head(p) = "_" \/ Lower(Head(p)) = Lower(Head(t))
         /\ Like(Tail(t), Tail(p))

\* !query
NoSearchQuery(q) == ~q.given \/ q.text = <<>>

\* req.query.query || ''
OrEmpty(q) == IF NoSearchQuery(q) THEN Text(<<>>) ELSE q

\* The handlers of the second application of each file: GET /api/jobs/search
\* of server.js:628 and GET /search of part_000:230.
SecondSearchRoutes == {"searchB", "searchB0"}

\* The parameter $1 of each handler.
PatternOf(route, q) == Pattern(IF route = "searchB" THEN OrEmpty(q) ELSE q)

\* column ILIKE pattern: not true of a NULL column.
ILike(v, p) == v # NullText /\ Like(v, p)

\* The statement of each handler.
SearchStatement(route) ==
    IF route \in SecondSearchRoutes THEN "SELECT jobs ILIKE title company"
    ELSE "SELECT Jobs Open ILIKE"

\* SearchGate without the test of the query.
SearchGate_NoCheck(route, q) == NoResponse

\* The check of server.js:190 before the try block; the other handlers have
\* none.
SearchGate(route, q) ==
    IF route = "search" /\ NoSearchQuery(q.query)
    THEN Response(400, "Search query is required.")
    ELSE NoResponse

SearchRoutes == {"search", "search0"} \cup SecondSearchRoutes

SearchArrive(route, q) ==
    /\ Len(reqs) < MaxReqs
    /\ LET v == SearchGate(route, q)
           i == Len(reqs) + 1
           r == [Request(route, NoBody, NoHeader, "done", v, <<>>, Len(users), i)
                   EXCEPT !.query = q]
       IN reqs' = Append(reqs,
              IF v # NoResponse THEN r
              ELSE [r EXCEPT !.pc = "search", !.resp = NoResponse, !.doneAt = 0,
                             !.stmts = <<SearchStatement(route)>>])
    /\ UNCHANGED <<users, tables, now, uniqueEmail>>

\* The WHERE clause: title or description ILIKE $1, Open, and in server.js
\* the job_type when one is given.  In the second applications: title or
\* company ILIKE $1 and nothing else.
SearchMatches(route, q) ==
    IF route \in SecondSearchRoutes
    THEN {k \in 1..Len(jobs) :
             \/ ILike(jobs[k].title, PatternOf(route, q.query))
             \/ ILike(jobs[k].company, PatternOf(route, q.query))}
    ELSE {k \in 1..Len(jobs) :
        /\ Like(jobs[k].title, Pattern(q.query)) \/ Like(jobs[k].description, Pattern(q.query))
        /\ jobs[k].job_status = "Open"
        /\ route = "search" /\ ~Falsy(q.job_type) => jobs[k].job_type = q.job_type}

\* u.company of LEFT JOIN Users u ON j.employer_id = u.user_id
CompanyOf(id) == IF Len(UsersById(id)) = 0 THEN Null ELSE UsersById(id)[1].company

SearchRow(k) ==
    [title |-> jobs[k].title, salary |-> jobs[k].salary,
     description |-> jobs[k].description, company |-> CompanyOf(jobs[k].employer_id),
     posted_date |-> ToDate(jobs[k].created_at)]

\* SELECT title, salary
TitleSalary(k) == [title |-> jobs[k].title, salary |-> jobs[k].salary]

\* A statement without ORDER BY: the rows come in any order.
Unordered == [k \in 1..Len(jobs) |-> 0]

\* ORDER BY: salary when server.js is asked for it, created_at otherwise.
\* The second applications select title and salary in no order; that of
\* server.js answers { jobs: rows }, that of part_000 the rows.
SearchResults(route, q) ==
    CASE route = "searchB" ->
           {[ids |-> f, jobs |-> [n \in DOMAIN f |-> TitleSalary(f[n])]] :
                f \in Orderings(SearchMatches(route, q), Unordered)}
      [] route = "searchB0" ->
           {[ids |-> f, rows |-> [n \in DOMAIN f |-> TitleSalary(f[n])]] :
                f \in Orderings(SearchMatches(route, q), Unordered)}
      [] OTHER ->
    {[ids |-> f, rows |-> [n \in DOMAIN f |-> SearchRow(f[n])]] :
        f \in IF route = "search" /\ q.sort = "salary"
              THEN Orderings(SearchMatches(route, q), Salary)
              ELSE Orderings(SearchMatches(route, q), Created)}

SearchQuery(i) ==
    /\ reqs[i].route \in SearchRoutes /\ reqs[i].pc = "search"
    /\ \E res \in SearchResults(reqs[i].route, reqs[i].query) :
          reqs' = Respond(i, [status |-> 200, msg |-> "", token |-> NoToken, data |-> res])
    /\ UNCHANGED <<users, tables, now, uniqueEmail>>

-----------------------------------------------------------------------------
(* POST /api/support *)

\* ValidateSupport without the test of content.
ValidateSupport_NoContent(b) ==
    IF Falsy(b.category) \/ Falsy(b.email)
    THEN Response(400, "Category, email, and content are required.")
    ELSE NoResponse

\* if (!category || !email || !content) return 400
ValidateSupport(b) ==
    IF Falsy(b.category) \/ Falsy(b.email) \/ Falsy(b.content)
    THEN Response(400, "Category, email, and content are required.")
    ELSE NoResponse

\* user_id || null: undefined and the number 0 are falsy.
UserIdOrNull(v) == IF ~v.given \/ v.num = 0 THEN SqlNull ELSE Num(v.num)

\* The row INSERT INTO ContactMessages .. VALUES (uuid_generate_v4(), $1, $2,
\* $3, $4, 'Open', NOW(), NOW()) adds for request i; the fresh uuid is the
\* number of the request.
NewMessage(i, b) ==
    [message_id |-> i, user_id |-> UserIdOrNull(b.user_id), category |-> b.category,
     email |-> b.email, content |-> b.content, status |-> "Open",
     created_at |-> now, modified_at |-> now]

SupportCreated == Response(201, "Support inquiry submitted successfully.")

\* A request arrives: destructure the body, validate, issue the INSERT.
SupportArrive(b) ==
    /\ LET v == ValidateSupport(b)
           i == Len(reqs) + 1
       IN reqs' = Append(reqs,
              IF v # NoResponse
              THEN Request("support", b, NoHeader, "done", v, <<>>, Len(users), i)
              ELSE Request("support", b, NoHeader, "message", NoResponse,
                           <<"INSERT ContactMessages">>, Len(users), 0))
    /\ UNCHANGED <<users, tables, now, uniqueEmail>>

\* The INSERT is executed and the handler answers 201.
SupportInsert(i) ==
    /\ reqs[i].route = "support" /\ reqs[i].pc = "message"
    /\ contactMessages' = Append(contactMessages, NewMessage(i, reqs[i].body))
    /\ reqs' = Respond(i, SupportCreated)
    /\ UNCHANGED <<users, jobs, payments, reviews, applications, now, uniqueEmail>>

-----------------------------------------------------------------------------
(* The session specification: registrations and logins, interleaved *)

Emails == {"ana@x.com", "bo@x.com"}

Passwords == {"p", "q"}

\* Bodies that pass validation: Workers, and an Employer with role and company.
RegisterBodies ==
    {[name |-> "Ana", email |-> e, password |-> "p", account_type |-> "Worker",
      role |-> Missing, company |-> Missing] : e \in Emails}
    \cup
    {[name |-> "Bo", email |-> "ana@x.com", password |-> "q", account_type |-> "Employer",
      role |-> "Owner", company |-> "Acme"]}

LoginBodies ==
    {[NoBody EXCEPT !.email = e, !.password = p] : e \in Emails, p \in Passwords}

InitTables ==
    /\ jobs = <<>>
    /\ payments = <<>>
    /\ reviews = <<>>
    /\ applications = <<>>
    /\ contactMessages = <<>>

Init ==
    /\ users = <<>>
    /\ InitTables
    /\ reqs = <<>>
    /\ now = 0
    /\ uniqueEmail = TRUE

\* The service runs one file: server.js, or its earlier copy part_000.
Deployments == {{"register", "login"}, {"register0", "login0"}}

\* The routes a next request may take: those of the file that served the
\* requests so far.
Served ==
    UNION {d \in Deployments : \A k \in 1..Len(reqs) : reqs[k].route \in d}

Next ==
    \/ \E route \in RegisterRoutes \cap Served, b \in RegisterBodies :
          RegisterArrive(route, b)
    \/ \E route \in LoginRoutes \cap Served, b \in LoginBodies : LoginArrive(route, b)
    \/ \E i \in 1..Len(reqs) : RegisterExists(i)
    \/ \E i \in 1..Len(reqs) : RegisterInsert(i)
    \/ \E i \in 1..Len(reqs) : LoginLookup(i)

Spec == Init /\ [][Next]_vars

\* The same handlers on a schema without the UNIQUE constraint on Users.email.
InitNoUnique ==
    /\ users = <<>>
    /\ InitTables
    /\ reqs = <<>>
    /\ now = 0
    /\ uniqueEmail = FALSE

SpecNoUnique == InitNoUnique /\ [][Next]_vars

-----------------------------------------------------------------------------
(* The history *)

Reqs == 1..Len(reqs)

IsRegister(i) == reqs[i].route \in RegisterRoutes

IsLogin(i) == reqs[i].route \in LoginRoutes

Status(i) == reqs[i].resp.status

\* Request j arrived after request i was answered.
After(i, j) == Done(i) /\ j > reqs[i].doneAt

\* Requests i and j were in flight at the same time.
Concurrent(i, j) == i # j /\ ~After(i, j) /\ ~After(j, i)

\* No Users row held the email of request i when i arrived.
FreshAtArrival(i) ==
    \A k \in 1..reqs[i].seen : users[k].email # reqs[i].body.email

\* Request i carries every field registration requires.
Complete(b) ==
    /\ b.name \notin {Missing, ""} /\ b.email \notin {Missing, ""}
    /\ b.password \notin {Missing, ""} /\ b.account_type \notin {Missing, ""}
    /\ b.account_type = "Employer" =>
          b.role \notin {Missing, ""} /\ b.company \notin {Missing, ""}

SameEmail(i, j) == reqs[i].body.email = reqs[j].body.email

SameCredentials(i, j) ==
    SameEmail(i, j) /\ reqs[i].body.password = reqs[j].body.password

\* The rows registration i added: rows with its email and password that
\* were not there when it arrived.
RowsOf(i) ==
    {k \in (reqs[i].seen + 1)..Len(users) :
        /\ users[k].email = reqs[i].body.email
        /\ users[k].password = reqs[i].body.password
        /\ users[k].account_type = reqs[i].body.account_type}

Issued(i, stmt) == \E k \in 1..Len(reqs[i].stmts) : reqs[i].stmts[k] = stmt

-----------------------------------------------------------------------------
(* C1 *)

\* C1 as stated: a complete registration whose email no row held when it
\* arrived is answered 201.
C1_Original ==
    \A i \in Reqs :
        IsRegister(i) /\ Done(i) /\ Complete(reqs[i].body) /\ FreshAtArrival(i)
            => Status(i) = 201

\* C1, amended: a complete registration whose email no row held when it
\* arrived, and with which no other registration of the same email was in
\* flight, is answered 201 and has added exactly one row; and every login that
\* arrives after a registration was answered 201, with that registration's email
\* and password, is answered 200, whatever requests came in between.
C1_RegisterThenLogin ==
    \A i \in Reqs :
        IsRegister(i) /\ Done(i) /\ Complete(reqs[i].body) =>
            /\ ( /\ FreshAtArrival(i)
                 /\ \A j \in Reqs : IsRegister(j) /\ SameEmail(i, j) => ~Concurrent(i, j) )
                   => Status(i) = 201 /\ Cardinality(RowsOf(i)) = 1
            /\ Status(i) = 201 =>
                   \A j \in Reqs :
                       IsLogin(j) /\ After(i, j) /\ Done(j) /\ SameCredentials(i, j)
                           => Status(j) = 200 /\ reqs[j].resp.msg = "Login successful."

\* A registration answered 201, another request after it, and then a login
\* with the registration's credentials, answered.
C1_Witness ==
    \E i, k, j \in Reqs :
        /\ IsRegister(i) /\ Status(i) = 201 /\ FreshAtArrival(i)
        /\ After(i, k) /\ After(k, j)
        /\ IsLogin(j) /\ Done(j) /\ SameCredentials(i, j)

-----------------------------------------------------------------------------
(* C2 *)

\* C2: once a registration with email e was answered 201, every registration
\* with e that arrives later is answered 400 without an INSERT, and Users still
\* holds exactly one row with e.
C2_DuplicateEmailRejected ==
    \A i, j \in Reqs :
        /\ IsRegister(i) /\ Status(i) = 201
        /\ IsRegister(j) /\ After(i, j) /\ Done(j) /\ SameEmail(i, j)
        => /\ Status(j) = 400
           /\ ~Issued(j, "INSERT Users")
           /\ RowsOf(j) = {}
           /\ Len(UsersByEmail(reqs[i].body.email)) = 1

\* A second registration of a registered email, with another name, password,
\* account type, role and company, was answered.
C2_Witness ==
    \E i, j \in Reqs :
        /\ IsRegister(i) /\ Status(i) = 201
        /\ IsRegister(j) /\ After(i, j) /\ Done(j) /\ SameEmail(i, j)
        /\ reqs[i].body.password # reqs[j].body.password
        /\ reqs[i].body.account_type # reqs[j].body.account_type
        /\ reqs[i].body.name # reqs[j].body.name

-----------------------------------------------------------------------------
(* C4 *)

\* The login found no row for its email.
UnknownEmail(i) ==
    IsLogin(i) /\ Done(i) /\ Issued(i, "SELECT Users BY email") /\ reqs[i].found = 0

\* The login found a row for its email, and that row stores another password.
WrongPassword(i) ==
    /\ IsLogin(i) /\ Done(i) /\ reqs[i].found > 0
    /\ \A k \in 1..Len(users) :
          users[k].email = reqs[i].body.email => users[k].password # reqs[i].body.password

\* C4: a login on an unknown email and a login on a known email with the wrong
\* password get the same response: 400, the same message, no token, no data.
C4_LoginFailuresIndistinguishable ==
    \A i, j \in Reqs :
        UnknownEmail(i) /\ WrongPassword(j) =>
            /\ reqs[i].resp = reqs[j].resp
            /\ Status(i) = 400
            /\ reqs[i].resp.token = NoToken

\* One history holds both kinds of failed login.
C4_Witness ==
    \E i, j \in Reqs : UnknownEmail(i) /\ WrongPassword(j)

-----------------------------------------------------------------------------
(* C9 *)

\* Registration i passed its existence check and went on to the INSERT.
PassedCheck(i) == IsRegister(i) /\ Issued(i, "INSERT Users") /\ reqs[i].found = 0

\* C9: under the UNIQUE constraint, of the registrations of one email at most
\* one is answered 201, also when several of them passed the existence check,
\* and no two rows of Users hold the same email.
C9_AtMostOneRegistration ==
    /\ \A i, j \in Reqs :
          IsRegister(i) /\ IsRegister(j) /\ i # j /\ SameEmail(i, j)
              => ~(Status(i) = 201 /\ Status(j) = 201)
    /\ \A k, l \in 1..Len(users) : users[k].email = users[l].email => k = l

\* Two concurrent registrations of one email both passed the existence check;
\* one was answered 201 and the other 500.
C9_Witness ==
    \E i, j \in Reqs :
        /\ PassedCheck(i) /\ PassedCheck(j) /\ i # j /\ SameEmail(i, j)
        /\ Concurrent(i, j)
        /\ Status(i) = 201 /\ Status(j) = 500

\* The second half of C9: checked under SpecNoUnique, where TLC refutes it.
\* Without the constraint the handler does not keep two registrations of one
\* email from both being answered 201.
C9_HandlerAlonePrevents ==
    \A i, j \in Reqs :
        IsRegister(i) /\ IsRegister(j) /\ i # j /\ SameEmail(i, j)
            => ~(Status(i) = 201 /\ Status(j) = 201)

-----------------------------------------------------------------------------
(* The validation specification: one registration, any body *)

\* Two registered users, as two registrations leave them.
SeedUsers ==
    << [user_id |-> 1, account_type |-> "Worker", name |-> "Ana", email |-> "ana@x.com",
        password |-> "p", company |-> Null, role |-> Null, status |-> "Active",
        created_at |-> 0],
       [user_id |-> 2, account_type |-> "Employer", name |-> "Bo", email |-> "bo@x.com",
        password |-> "q", company |-> "Acme", role |-> "Owner", status |-> "Active",
        created_at |-> 0] >>

\* Every body over absent, empty and present fields.
AllBodies ==
    [name : {Missing, "", "Cy"}, email : {Missing, "", "ana@x.com", "cy@x.com"},
     password : {Missing, "", "p"}, account_type : {Missing, "", "Worker", "Employer"},
     role : {Missing, "", "Owner"}, company : {Missing, "", "Acme"}]

InitValidate ==
    /\ users = SeedUsers
    /\ InitTables
    /\ reqs = <<>>
    /\ now = 0
    /\ uniqueEmail = TRUE

NextValidate ==
    \/ /\ reqs = <<>>
       /\ \E route \in RegisterRoutes, b \in AllBodies : RegisterArrive(route, b)
    \/ \E i \in 1..Len(reqs) : RegisterExists(i)
    \/ \E i \in 1..Len(reqs) : RegisterInsert(i)

SpecValidate == InitValidate /\ [][NextValidate]_vars

-----------------------------------------------------------------------------
(* C3 *)

\* A required field of the body is absent or empty.
Incomplete(b) ==
    \/ \E f \in {"name", "email", "password", "account_type"} : b[f] \in {Missing, ""}
    \/ b.account_type = "Employer" /\ \E f \in {"role", "company"} : b[f] \in {Missing, ""}

\* C3: a registration with a required field absent or empty is answered 400 on
\* arrival, has issued no statement, and has added no row.
C3_IncompleteRejected ==
    \A i \in Reqs :
        IsRegister(i) /\ Incomplete(reqs[i].body) =>
            /\ Done(i) /\ Status(i) = 400
            /\ reqs[i].stmts = <<>>
            /\ Len(users) = reqs[i].seen

\* An Employer registration with everything but the company was answered.
C3_Witness ==
    \E i \in Reqs :
        /\ IsRegister(i) /\ Done(i)
        /\ reqs[i].body.account_type = "Employer"
        /\ ~Falsy(reqs[i].body.name) /\ ~Falsy(reqs[i].body.email)
        /\ ~Falsy(reqs[i].body.password) /\ ~Falsy(reqs[i].body.role)
        /\ reqs[i].body.company = Missing

-----------------------------------------------------------------------------
(* The token specification: logins, the clock, and the protected routes *)

\* Hours the clock advances in one step.
TickHours == 12

\* The clock stops here.
MaxNow == 24

SeedJobs ==
    << [job_id |-> 1, employer_id |-> 2, title |-> <<"a">>, description |-> <<"b">>,
        company |-> NullText,
        salary |-> 10, job_type |-> "Full", job_status |-> "Open", created_at |-> 0] >>

SeedPayments ==
    << [worker_id |-> 1, job_id |-> 1, hours_worked |-> 2, amount |-> 5, status |-> "Paid"] >>

SeedReviews ==
    << [reviewer_id |-> 2, reviewee_id |-> 1, comment |-> "good", rating |-> 5,
        created_at |-> 0] >>

SeedApplications ==
    << [job_id |-> 1, worker_id |-> 1, status |-> "Pending", applied_at |-> 0] >>

SeedTables ==
    /\ jobs = SeedJobs
    /\ payments = SeedPayments
    /\ reviews = SeedReviews
    /\ applications = SeedApplications
    /\ contactMessages = <<>>

InitToken ==
    /\ users = SeedUsers
    /\ SeedTables
    /\ reqs = <<>>
    /\ now = 0
    /\ uniqueEmail = TRUE

\* The tokens login has issued so far.
IssuedTokens ==
    {reqs[i].resp.token : i \in {k \in 1..Len(reqs) : reqs[k].resp.token # NoToken}}

\* A token with an altered signature: it verifies under no key of the service.
Forged(t) == [t EXCEPT !.key = "attacker"]

\* The Authorization headers a client may send.
Headers ==
    {NoHeader, BareHeader}
    \cup {Bearer(t) : t \in IssuedTokens}
    \cup {Bearer(Forged(t)) : t \in IssuedTokens}

Tick ==
    /\ now < MaxNow
    /\ now' = now + TickHours
    /\ UNCHANGED <<users, tables, reqs, uniqueEmail>>

AnaLogin == [NoBody EXCEPT !.email = "ana@x.com", !.password = "p"]

NextToken ==
    \/ LoginArrive("login", AnaLogin)
    \/ \E i \in 1..Len(reqs) : LoginLookup(i)
    \/ Tick
    \/ \E route \in ProtectedRoutes, h \in Headers : ProtectedArrive(route, h)
    \/ \E i \in 1..Len(reqs) : MeUser(i)
    \/ \E i \in 1..Len(reqs) : MeAggregate(i)
    \/ \E i \in 1..Len(reqs) : ListQuery(i)

SpecToken == InitToken /\ [][NextToken]_vars

-----------------------------------------------------------------------------
(* C5 *)

IsProtected(i) == reqs[i].route \in ProtectedRoutes

\* The request carries no bearer token.
NoBearer(i) == ~reqs[i].auth.present \/ ~reqs[i].auth.hasCred

\* The request's token fails the signature check, or had expired on arrival.
BadToken(i) ==
    /\ reqs[i].auth.present /\ reqs[i].auth.hasCred
    /\ \/ reqs[i].auth.cred.key # JWT_SECRET
       \/ reqs[i].at >= reqs[i].auth.cred.payload.exp

\* The request's token was issued by login and had not expired on arrival.
GoodToken(i) ==
    /\ reqs[i].auth.present /\ reqs[i].auth.hasCred
    /\ reqs[i].auth.cred \in IssuedTokens
    /\ reqs[i].at < reqs[i].auth.cred.payload.exp

\* The handler went on to its data access under the token's user id.
Granted(i) ==
    /\ reqs[i].stmts # <<>>
    /\ reqs[i].uid = reqs[i].auth.cred.payload.user_id
    /\ Done(i) => Status(i) = 200

\* C5 as stated: on every protected route, no bearer token is answered 401, a
\* token that fails the signature or expiry check is answered 403, and a token
\* issued by login and not expired is granted access.
C5_TokenGate ==
    \A i \in Reqs :
        IsProtected(i) =>
            /\ NoBearer(i) => Done(i) /\ Status(i) = 401
            /\ BadToken(i) => Done(i) /\ Status(i) = 403
            /\ GoodToken(i) => Granted(i)

-----------------------------------------------------------------------------
(* The listing specification: one listing request over any Jobs table *)

\* Rows of the Jobs table of the listing specification.
MaxJobs == 4

\* Tables of up to n rows over the given rows; row k has job_id k.
Tables(rows, n) ==
    UNION {[1..m -> rows] : m \in 0..n}

WithIds(t) == [k \in DOMAIN t |-> [t[k] EXCEPT !.job_id = k]]

ListingJobRows ==
    {[job_id |-> 0, employer_id |-> 2, title |-> <<"a">>, description |-> <<"b">>,
        company |-> NullText,
      salary |-> sc[1], job_type |-> "Full", job_status |-> st, created_at |-> sc[2]] :
        st \in {"Open", "Closed"}, sc \in {<<10, 0>>, <<10, 24>>, <<20, 0>>}}

InitJobs ==
    /\ users = SeedUsers
    /\ jobs \in {WithIds(t) : t \in Tables(ListingJobRows, MaxJobs)}
    /\ payments = <<>>
    /\ reviews = <<>>
    /\ applications = <<>>
    /\ contactMessages = <<>>
    /\ reqs = <<>>
    /\ now = 0
    /\ uniqueEmail = TRUE

NextJobs ==
    \/ /\ reqs = <<>>
       /\ \E route \in ListingRoutes : ListingArrive(route)
    \/ \E i \in 1..Len(reqs) : ListingQuery(i)

SpecJobs == InitJobs /\ [][NextJobs]_vars

-----------------------------------------------------------------------------
(* C7 *)

IsListing(i) == reqs[i].route \in ListingRoutes

\* The column a listing route orders by.
KeyOf(i, k) == IF reqs[i].route = "top-salary" THEN jobs[k].salary ELSE jobs[k].created_at

IsOpen(k) == jobs[k].job_status = "Open"

\* C7: a listing returns at most 3 rows, all of them distinct Open jobs, in
\* non-increasing order of the route's key; no Open job left out has a larger
\* key than a returned one; and with fewer than 3 Open jobs all are returned.
C7_TopThreeOpen ==
    \A i \in Reqs :
        IsListing(i) /\ Done(i) =>
            LET ids == reqs[i].resp.data.ids
                rows == reqs[i].resp.data.rows
                got == {ids[n] : n \in DOMAIN ids}
                open == {k \in 1..Len(jobs) : IsOpen(k)}
            IN /\ Status(i) = 200
               /\ Len(ids) <= 3 /\ Len(rows) = Len(ids)
               /\ \A n \in DOMAIN ids : ids[n] \in 1..Len(jobs) /\ IsOpen(ids[n])
               /\ \A n, m \in DOMAIN ids : n < m =>
                      ids[n] # ids[m] /\ KeyOf(i, ids[n]) >= KeyOf(i, ids[m])
               /\ \A n \in DOMAIN ids :
                      /\ rows[n].salary = jobs[ids[n]].salary
                      /\ rows[n].title = jobs[ids[n]].title
               /\ \A k \in open \ got : \A g \in got : KeyOf(i, k) <= KeyOf(i, g)
               /\ Cardinality(open) < 3 => got = open
               /\ Cardinality(open) >= 3 => Cardinality(got) = 3

\* A listing over four Open jobs was answered with three of them, and the job
\* left out has a smaller key than each of the three.
C7_Witness ==
    \E i \in Reqs :
        /\ IsListing(i) /\ Done(i) /\ Len(reqs[i].resp.data.ids) = 3
        /\ Cardinality({k \in 1..Len(jobs) : IsOpen(k)}) = 4
        /\ \E k \in 1..Len(jobs) : \A n \in 1..3 :
              KeyOf(i, k) < KeyOf(i, reqs[i].resp.data.ids[n])

-----------------------------------------------------------------------------
(* The search specification: one search request over any Jobs table *)

\* Rows of the Jobs table of the search specification.
MaxSearchJobs == 2

SearchJobRows ==
    {[job_id |-> 0, employer_id |-> 2, title |-> t, description |-> <<"b">>,
      company |-> co, salary |-> 10, job_type |-> jt, job_status |-> st,
      created_at |-> 0] :
        t \in {<<"A">>, UndefinedText}, jt \in {"Full", "Part"},
        st \in {"Open", "Closed"}, co \in {NullText}}
    \cup
    {[job_id |-> 0, employer_id |-> 2, title |-> t, description |-> <<"b">>,
      company |-> <<"c">>, salary |-> 10, job_type |-> "Full", job_status |-> st,
      created_at |-> 0] :
        t \in {<<"A">>, UndefinedText}, st \in {"Open", "Closed"}}

\* Row k is the k-th newest and has the k-th smallest salary.
WithOrder(t) ==
    [k \in DOMAIN t |-> [t[k] EXCEPT !.job_id = k, !.salary = 10 * k,
                                     !.created_at = 24 * (Len(t) - k)]]

InitSearch ==
    /\ users = SeedUsers
    /\ jobs \in {WithOrder(t) : t \in Tables(SearchJobRows, MaxSearchJobs)}
    /\ payments = <<>>
    /\ reviews = <<>>
    /\ applications = <<>>
    /\ contactMessages = <<>>
    /\ reqs = <<>>
    /\ now = 0
    /\ uniqueEmail = TRUE

SearchQueries ==
    [query : {NoText, Text(<<>>), Text(<<"a">>), Text(<<"_">>), Text(<<"c">>)},
     job_type : {Missing, "Full"}, sort : {Missing, "salary", "newest"}]

NextSearch ==
    \/ /\ reqs = <<>>
       /\ \E route \in SearchRoutes, q \in SearchQueries :
             /\ route \in SecondSearchRoutes => q.job_type = Missing /\ q.sort = Missing
             /\ SearchArrive(route, q)
    \/ \E i \in 1..Len(reqs) : SearchQuery(i)

SpecSearch == InitSearch /\ [][NextSearch]_vars

-----------------------------------------------------------------------------
(* C6 *)

IsSearch(i) == reqs[i].route \in SearchRoutes

\* The request's query parameter is missing or empty.
EmptyQuery(i) == ~reqs[i].query.query.given \/ reqs[i].query.query.text = <<>>

\* Text t has the run of characters u in it, whatever the case.
RECURSIVE SameFolded(_, _)
SameFolded(t, u) ==
    IF t = <<>> \/ u = <<>> THEN t = u
    ELSE Lower(Head(t)) = Lower(Head(u)) /\ SameFolded(Tail(t), Tail(u))

Contains(t, u) ==
    \E a \in 1..(Len(t) + 1) : \E b \in (a - 1)..Len(t) : SameFolded(SubSeq(t, a, b), u)

\* C6 as stated: in every variant a search with an empty or missing query is
\* answered with an empty result set, not an error, without a database query.
C6_Original ==
    \A i \in Reqs :
        IsSearch(i) /\ EmptyQuery(i) =>
            /\ Done(i) /\ Status(i) = 200
            /\ reqs[i].resp.data.ids = <<>>
            /\ reqs[i].stmts = <<>>

\* The jobs one of whose texts has "undefined" in it.
NamesUndefined(k, texts) ==
    \E t \in texts : t # NullText /\ Contains(t, UndefinedText)

\* The rows the answer of request i returns.
Found(i) == {reqs[i].resp.data.ids[n] : n \in DOMAIN reqs[i].resp.data.ids}

\* C6, amended: a search with an empty or missing query issues no database
\* query in the first handler of server.js only, which answers it 400 "Search
\* query is required."; every other handler issues its query and answers 200.
\* The first handler of part_000 returns the Open jobs whose title or
\* description contains "undefined" when the query is missing, and every
\* Open job when it is empty; the second handler of server.js returns every
\* job, Open or not; the second handler of part_000 returns every job when
\* the query is empty and the jobs whose title or company contains
\* "undefined" when it is missing.
C6_EmptyQuery ==
    \A i \in Reqs :
        IsSearch(i) /\ EmptyQuery(i) =>
            /\ reqs[i].route = "search" =>
                  /\ Done(i) /\ Status(i) = 400
                  /\ reqs[i].resp.msg = "Search query is required."
                  /\ reqs[i].resp.data = NoData
                  /\ reqs[i].stmts = <<>>
            /\ reqs[i].route = "search0" =>
                  /\ reqs[i].stmts = <<"SELECT Jobs Open ILIKE">>
                  /\ Done(i) =>
                        LET ids == reqs[i].resp.data.ids IN
                        /\ Status(i) = 200
                        /\ {ids[n] : n \in DOMAIN ids} =
                              {k \in 1..Len(jobs) :
                                  /\ IsOpen(k)
                                  /\ ~reqs[i].query.query.given =>
                                        \/ Contains(jobs[k].title, UndefinedText)
                                        \/ Contains(jobs[k].description, UndefinedText)}
            /\ reqs[i].route = "searchB" =>
                  /\ reqs[i].stmts = <<"SELECT jobs ILIKE title company">>
                  /\ Done(i) =>
                        /\ Status(i) = 200
                        /\ Found(i) = 1..Len(jobs)
                        /\ Len(reqs[i].resp.data.jobs) = Len(jobs)
            /\ reqs[i].route = "searchB0" =>
                  /\ reqs[i].stmts = <<"SELECT jobs ILIKE title company">>
                  /\ Done(i) =>
                        /\ Status(i) = 200
                        /\ Found(i) =
                              {k \in 1..Len(jobs) :
                                  ~reqs[i].query.query.given =>
                                      NamesUndefined(k, {jobs[k].title, jobs[k].company})}

\* The handler of part_000 answered a search with an empty query with two jobs.
C6_Witness ==
    \E i \in Reqs :
        /\ reqs[i].route = "search0" /\ reqs[i].query.query = Text(<<>>)
        /\ Done(i) /\ Len(reqs[i].resp.data.ids) = 2

-----------------------------------------------------------------------------
(* The dashboard specification: a user logs in and reads the dashboard,   *)
(* over any Payments table                                                 *)

\* Rows of the Payments table of the dashboard specification.
MaxPayments == 2

DashUsers ==
    SeedUsers \o
    << [user_id |-> 3, account_type |-> "Worker", name |-> "Cy", email |-> "cy@x.com",
        password |-> "r", company |-> Null, role |-> Null, status |-> "Active",
        created_at |-> 0] >>

PaymentRows ==
    [worker_id : {1, 3}, job_id : {1}, hours_worked : {2, 3}, amount : {5, 7},
     status : {"Paid", "Pending", "Failed"}]

InitDash ==
    /\ users = DashUsers
    /\ jobs = SeedJobs
    /\ payments \in Tables(PaymentRows, MaxPayments)
    /\ reviews = <<>>
    /\ applications = <<>>
    /\ contactMessages = <<>>
    /\ reqs = <<>>
    /\ now = 0
    /\ uniqueEmail = TRUE

DashLogins ==
    {[NoBody EXCEPT !.email = u.email, !.password = u.password] :
        u \in {DashUsers[k] : k \in DOMAIN DashUsers}}

NextDash ==
    \/ /\ reqs = <<>>
       /\ \E b \in DashLogins : LoginArrive("login", b)
    \/ \E i \in 1..Len(reqs) : LoginLookup(i)
    \/ /\ Len(reqs) = 1
       /\ \E t \in IssuedTokens : ProtectedArrive("me", Bearer(t))
    \/ \E i \in 1..Len(reqs) : MeUser(i)
    \/ \E i \in 1..Len(reqs) : MeAggregate(i)

SpecDash == InitDash /\ [][NextDash]_vars

-----------------------------------------------------------------------------
(* C8 *)

RECURSIVE SumOver(_, _)
\* The sum of the function f over the set S.
SumOver(f, S) ==
    IF S = {} THEN 0
    ELSE LET k == CHOOSE x \in S : TRUE IN f[k] + SumOver(f, S \ {k})

\* The Payment rows of worker id, and those of them with a status.
PaymentsOf(id) == {k \in 1..Len(payments) : payments[k].worker_id = id}

PaymentsWith(id, status) == {k \in PaymentsOf(id) : payments[k].status = status}

HoursAt == [k \in 1..Len(payments) |-> payments[k].hours_worked]

AmountAt == [k \in 1..Len(payments) |-> payments[k].amount]

\* The acting user of request i is a Worker.
ActsAsWorker(i) ==
    \E k \in 1..Len(users) :
        users[k].user_id = reqs[i].uid /\ users[k].account_type = "Worker"

\* C8: the dashboard of a Worker carries the sum of hours_worked over the
\* worker's Payment rows, the sum of amount over the Paid ones and the sum of
\* amount over the Pending ones, each a number, and 0 over no rows.
C8_WorkerAggregates ==
    \A i \in Reqs :
        reqs[i].route = "me" /\ Done(i) /\ ActsAsWorker(i) =>
            LET m == reqs[i].resp.data.metrics
                id == reqs[i].uid
            IN /\ Status(i) = 200
               /\ DOMAIN m = {"total_hours_worked", "total_earnings", "pending_payment"}
               /\ m.total_hours_worked = Num(SumOver(HoursAt, PaymentsOf(id)))
               /\ m.total_earnings = Num(SumOver(AmountAt, PaymentsWith(id, "Paid")))
               /\ m.pending_payment = Num(SumOver(AmountAt, PaymentsWith(id, "Pending")))
               /\ PaymentsOf(id) = {} =>
                      /\ m.total_hours_worked = Num(0)
                      /\ m.total_earnings = Num(0)
                      /\ m.pending_payment = Num(0)

\* The dashboard of a Worker without a Payment row was answered, over a table
\* that holds rows of another worker.
C8_Witness ==
    \E i \in Reqs :
        /\ reqs[i].route = "me" /\ Done(i) /\ ActsAsWorker(i) /\ Status(i) = 200
        /\ PaymentsOf(reqs[i].uid) = {}
        /\ payments # <<>>

-----------------------------------------------------------------------------
(* The fault specification: every handler, and statements that fail *)

\* Requests per behaviour of the fault specification.
MaxFaultReqs == 2

\* The database fails the statement request i waits for: pool.query rejects,
\* the statement has no effect, and the catch block of the handler answers.
DbFails(i) ==
    /\ ~Done(i)
    /\ reqs' = Throw(i, Catch(reqs[i].route))
    /\ UNCHANGED <<users, tables, now, uniqueEmail>>

CyRegister ==
    [name |-> "Cy", email |-> "cy@x.com", password |-> "r", account_type |-> "Worker",
     role |-> Missing, company |-> Missing]

ASearch == [query |-> Text(<<"a">>), job_type |-> Missing, sort |-> Missing]

ASupport == [user_id |-> NoUserId, category |-> "Billing", email |-> "g@x.com",
             content |-> "help"]

FaultRoom == Len(reqs) < MaxFaultReqs

NextFault ==
    \/ FaultRoom /\ RegisterArrive("register", CyRegister)
    \/ FaultRoom /\ LoginArrive("login", AnaLogin)
    \/ FaultRoom /\ \E route \in ListingRoutes : ListingArrive(route)
    \/ FaultRoom /\ \E route \in SearchRoutes : SearchArrive(route, ASearch)
    \/ FaultRoom /\ \E route \in ProtectedRoutes, t \in IssuedTokens :
                        ProtectedArrive(route, Bearer(t))
    \/ FaultRoom /\ SupportArrive(ASupport)
    \/ \E i \in 1..Len(reqs) : SupportInsert(i)
    \/ \E i \in 1..Len(reqs) : RegisterExists(i)
    \/ \E i \in 1..Len(reqs) : RegisterInsert(i)
    \/ \E i \in 1..Len(reqs) : LoginLookup(i)
    \/ \E i \in 1..Len(reqs) : ListingQuery(i)
    \/ \E i \in 1..Len(reqs) : SearchQuery(i)
    \/ \E i \in 1..Len(reqs) : MeUser(i)
    \/ \E i \in 1..Len(reqs) : MeAggregate(i)
    \/ \E i \in 1..Len(reqs) : ListQuery(i)
    \/ \E i \in 1..Len(reqs) : DbFails(i)

SpecFault == InitToken /\ [][NextFault]_vars

-----------------------------------------------------------------------------
(* C10 *)

\* The fixed message of the 500 response of each handler.
GenericMessage(route) ==
    CASE route \in {"register", "register0"} -> "Server error during registration."
      [] route \in {"login", "login0"} -> "Server error during login."
      [] route = "top-salary" -> "Server error fetching top salary jobs."
      [] route = "newest" -> "Server error fetching newest jobs."
      [] route \in {"search", "search0"} -> "Server error searching jobs."
      [] route \in SecondSearchRoutes -> "Server error"
      [] route = "me" -> "Server error fetching dashboard profile."
      [] route = "me2" -> "Server error fetching user profile."
      [] route = "support" -> "Server error submitting support inquiry."
      [] route \in {"reviews", "reviews2"} -> "Server error fetching reviews."
      [] route = "applications" -> "Server error fetching worker applications."
      [] route = "job-applications" -> "Server error fetching employer job applications."

\* A request whose statement failed is answered 500 with its handler's fixed
\* message and nothing else; the second applications send the message in the
\* field `error`, the others in `message`.
FailedIsGeneric ==
    \A i \in Reqs :
        reqs[i].err =>
            /\ Done(i) /\ Status(i) = 500
            /\ reqs[i].resp.token = NoToken
            /\ IF reqs[i].route \in SecondSearchRoutes
               THEN /\ reqs[i].resp.msg = ""
                    /\ reqs[i].resp.data = [error |-> GenericMessage(reqs[i].route)]
               ELSE /\ reqs[i].resp.msg = GenericMessage(reqs[i].route)
                    /\ reqs[i].resp.data = NoData

\* After the failure the request neither issues a statement nor answers again.
FailedIsFinal ==
    \A i \in Reqs : reqs[i].err => reqs'[i] = reqs[i]

\* C10: a request whose database statement failed is answered once, 500 with
\* the handler's fixed message and no detail; it issues no further statement
\* and gets no 2xx; a registration whose INSERT failed is not answered 201.
C10_FailureIs500 == [] FailedIsGeneric /\ [][FailedIsFinal]_vars

\* A registration passed its existence check, its INSERT failed, and it was
\* answered.
C10_Witness ==
    \E i \in Reqs :
        /\ IsRegister(i) /\ reqs[i].err /\ Done(i)
        /\ reqs[i].stmts = <<"SELECT Users BY email", "INSERT Users">>

-----------------------------------------------------------------------------
(* The profile specification: GET /api/users/me under tokens whose User    *)
(* row may be gone                                                         *)

\* Requests per behaviour of the profile specification.
MaxMeReqs == 3

\* The table t without the rows of the users in gone.
Without(t, gone) == SelectSeq(t, LAMBDA u : u.user_id \notin gone)

\* The Users table after any of its rows was removed in the database; the
\* service itself never deletes a user.
UserTables == {Without(DashUsers, gone) : gone \in SUBSET {1, 2, 3}}

InitMe ==
    /\ users \in UserTables
    /\ SeedTables
    /\ reqs = <<>>
    /\ now = 0
    /\ uniqueEmail = TRUE

\* The tokens login issued to each user while the row was there; a token
\* lasts ExpiresInHours whatever becomes of the row.
HeldTokens ==
    {Sign([user_id |-> DashUsers[k].user_id, email |-> DashUsers[k].email,
           account_type |-> DashUsers[k].account_type], JWT_SECRET) :
        k \in DOMAIN DashUsers}

NextMe ==
    \/ /\ Len(reqs) < MaxMeReqs
       /\ \E t \in HeldTokens : ProtectedArrive(Handler("/api/users/me"), Bearer(t))
    \/ \E i \in 1..Len(reqs) : MeUser(i)
    \/ \E i \in 1..Len(reqs) : MeAggregate(i)

SpecMe == InitMe /\ [][NextMe]_vars

-----------------------------------------------------------------------------
(* C11 *)

\* Request i is a GET /api/users/me.
IsMe(i) ==
    \E n \in DOMAIN Registered("/api/users/me") :
        reqs[i].route = Registered("/api/users/me")[n]

\* The request's token carries the service's signature and had not expired
\* on arrival.
ValidToken(i) ==
    /\ reqs[i].auth.present /\ reqs[i].auth.hasCred
    /\ reqs[i].auth.cred.key = JWT_SECRET
    /\ reqs[i].at < reqs[i].auth.cred.payload.exp

\* The user_id of the request's token matches no User row.
NoSuchUser(i) == Len(UsersById(reqs[i].auth.cred.payload.user_id)) = 0

PaymentsStatements ==
    {"SELECT SUM Payments BY employer_id", "SELECT SUM Payments BY worker_id"}

\* C11: GET /api/users/me with a valid token whose user_id matches no User
\* row is answered 404 with no data, never 200 and never 500, and issues no
\* statement beyond the SELECT of the user: no Payments aggregation.
C11_UnknownUserIs404 ==
    \A i \in Reqs :
        IsMe(i) /\ ValidToken(i) /\ NoSuchUser(i) =>
            /\ Done(i) => /\ Status(i) = 404
                          /\ reqs[i].resp.data = NoData
                          /\ ~reqs[i].err
            /\ reqs[i].pc \in {"user", "done"}
            /\ reqs[i].stmts = <<"SELECT Users BY user_id">>
            /\ \A n \in DOMAIN reqs[i].stmts : reqs[i].stmts[n] \notin PaymentsStatements

\* A request with a valid token of a user whose row is gone was answered 404,
\* while another user of the same table got a dashboard.
C11_Witness ==
    \E i, j \in Reqs :
        /\ IsMe(i) /\ ValidToken(i) /\ NoSuchUser(i)
        /\ Done(i) /\ Status(i) = 404
        /\ IsMe(j) /\ Done(j) /\ Status(j) = 200

-----------------------------------------------------------------------------
(* The support specification: support inquiries, interleaved *)

\* Requests per behaviour of the support specification.
MaxSupportReqs == 2

\* Bodies over absent, empty and present fields; a complete body carries no
\* user_id, the number 0, the id of a user or an id of no user.
SupportBodies ==
    {b \in [user_id : {NoUserId, UserId(0), UserId(1), UserId(9)},
            category : {Missing, "", "Billing"}, email : {Missing, "", "g@x.com"},
            content : {Missing, "", "help"}] :
        \/ b.user_id \in {NoUserId, UserId(1)}
        \/ ~Falsy(b.category) /\ ~Falsy(b.email) /\ ~Falsy(b.content)}

NextSupport ==
    \/ /\ Len(reqs) < MaxSupportReqs
       /\ \E b \in SupportBodies : SupportArrive(b)
    \/ \E i \in 1..Len(reqs) : SupportInsert(i)

SpecSupport == InitToken /\ [][NextSupport]_vars

-----------------------------------------------------------------------------
(* C12 *)

IsSupport(i) == reqs[i].route = "support"

\* One of category, email, content is absent or empty.
SupportIncomplete(b) ==
    \E f \in {"category", "email", "content"} : b[f] \in {Missing, ""}

\* The ContactMessages rows request i inserted.
MessagesOf(i) == {k \in 1..Len(contactMessages) : contactMessages[k].message_id = i}

\* An incomplete inquiry is answered 400 on arrival, issues no statement and
\* inserts nothing.
SupportRejected(i) ==
    /\ Done(i) /\ Status(i) = 400
    /\ reqs[i].stmts = <<>>
    /\ MessagesOf(i) = {}

\* A complete inquiry issues one INSERT and is answered 201 once its one row
\* is there: status "Open", the body's category, email and content, and the
\* user_id uid.  No token is read and no user is looked up.
SupportAccepted(i, uid) ==
    /\ reqs[i].stmts = <<"INSERT ContactMessages">>
    /\ Done(i) => Status(i) = 201
    /\ Cardinality(MessagesOf(i)) = IF Done(i) THEN 1 ELSE 0
    /\ \A k \in MessagesOf(i) :
          /\ contactMessages[k].status = "Open"
          /\ contactMessages[k].user_id = uid
          /\ contactMessages[k].category = reqs[i].body.category
          /\ contactMessages[k].email = reqs[i].body.email
          /\ contactMessages[k].content = reqs[i].body.content

\* Every row was inserted by an accepted inquiry.
MessagesAccountedFor ==
    \A k \in 1..Len(contactMessages) :
        \E i \in Reqs : IsSupport(i) /\ Status(i) = 201 /\ MessagesOf(i) = {k}

\* C12 as stated: the stored user_id is the supplied one whenever one is
\* supplied, and null when none is.
C12_Original ==
    \A i \in Reqs :
        IsSupport(i) /\ ~SupportIncomplete(reqs[i].body) =>
            SupportAccepted(i, IF reqs[i].body.user_id.given
                               THEN Num(reqs[i].body.user_id.num) ELSE SqlNull)

\* C12: POST /api/support is answered 400 and inserts nothing when category,
\* email or content is absent or empty; otherwise it inserts exactly one
\* ContactMessage with status "Open" and is answered 201, whether or not a
\* user of the supplied id exists; the stored user_id is the supplied one,
\* and null when none is supplied or the supplied one is 0.
C12_SupportInquiry ==
    /\ MessagesAccountedFor
    /\ \A i \in Reqs :
          IsSupport(i) =>
              IF SupportIncomplete(reqs[i].body) THEN SupportRejected(i)
              ELSE SupportAccepted(i,
                       IF reqs[i].body.user_id.given /\ reqs[i].body.user_id.num # 0
                       THEN Num(reqs[i].body.user_id.num) ELSE SqlNull)

\* An incomplete inquiry was answered 400, and a complete one with the id of
\* no user was answered 201 with its row in the table.
C12_Witness ==
    \E i, k \in Reqs :
        /\ IsSupport(i) /\ SupportIncomplete(reqs[i].body) /\ Status(i) = 400
        /\ IsSupport(k) /\ Status(k) = 201 /\ reqs[k].body.user_id = UserId(9)
        /\ Len(UsersById(9)) = 0
        /\ Len(contactMessages) = 1 /\ contactMessages[1].user_id = Num(9)

-----------------------------------------------------------------------------
(* The account specification: a registration of any account type, a login  *)
(* and a dashboard read, over any Payments table                            *)

\* Jobs of the employer Bo (user 2) and of the user registered next (user 3).
AccountJobs ==
    << [job_id |-> 1, employer_id |-> 2, title |-> <<"a">>, description |-> <<"b">>,
        company |-> NullText,
        salary |-> 10, job_type |-> "Full", job_status |-> "Open", created_at |-> 0],
       [job_id |-> 2, employer_id |-> 3, title |-> <<"c">>, description |-> <<"d">>,
        company |-> NullText,
        salary |-> 20, job_type |-> "Full", job_status |-> "Open", created_at |-> 0] >>

AccountPaymentRows ==
    [worker_id : {1, 3}, job_id : {1, 2}, hours_worked : {2}, amount : {5},
     status : {"Paid", "Pending"}]

InitAccount ==
    /\ users = SeedUsers
    /\ jobs = AccountJobs
    /\ payments \in Tables(AccountPaymentRows, MaxPayments)
    /\ reviews = <<>>
    /\ applications = <<>>
    /\ contactMessages = <<>>
    /\ reqs = <<>>
    /\ now = 0
    /\ uniqueEmail = TRUE

\* The account types a client may send: the two of the data model, and others.
AccountTypes == {"Worker", "Employer", "Admin", "employer"}

AccountBodies ==
    {[name |-> "Cy", email |-> "cy@x.com", password |-> "r", account_type |-> t,
      role |-> "Owner", company |-> "Acme"] : t \in AccountTypes}

AccountLogins ==
    {[NoBody EXCEPT !.email = e, !.password = p] :
        <<e, p>> \in {<<"ana@x.com", "p">>, <<"bo@x.com", "q">>, <<"cy@x.com", "r">>}}

NextAccount ==
    \/ /\ reqs = <<>>
       /\ \E b \in AccountBodies : RegisterArrive("register", b)
    \/ \E i \in 1..Len(reqs) : RegisterExists(i)
    \/ \E i \in 1..Len(reqs) : RegisterInsert(i)
    \/ /\ Len(reqs) = 1 /\ Done(1)
       /\ \E b \in AccountLogins : LoginArrive("login", b)
    \/ \E i \in 1..Len(reqs) : LoginLookup(i)
    \/ /\ Len(reqs) = 2
       /\ \E t \in IssuedTokens : ProtectedArrive(Handler("/api/users/me"), Bearer(t))
    \/ \E i \in 1..Len(reqs) : MeUser(i)
    \/ \E i \in 1..Len(reqs) : MeAggregate(i)

SpecAccount == InitAccount /\ [][NextAccount]_vars

-----------------------------------------------------------------------------
(* C13 *)

\* The Payment rows of the jobs of employer id, and those of a status.
PaymentsFor(id) ==
    {k \in 1..Len(payments) :
        \E j \in 1..Len(jobs) :
            jobs[j].job_id = payments[k].job_id /\ jobs[j].employer_id = id}

PaymentsForWith(id, status) == {k \in PaymentsFor(id) : payments[k].status = status}

\* The Worker fields, computed over the Payments of worker id.
WorkerFields(id) ==
    [total_hours_worked |-> Num(SumOver(HoursAt, PaymentsOf(id))),
     total_earnings |-> Num(SumOver(AmountAt, PaymentsWith(id, "Paid"))),
     pending_payment |-> Num(SumOver(AmountAt, PaymentsWith(id, "Pending")))]

\* The Employer fields, computed over the Payments of the jobs of employer id.
EmployerFields(id) ==
    [total_hours_worked |-> Num(SumOver(HoursAt, PaymentsFor(id))),
     total_jobs_paid |-> Num(SumOver(AmountAt, PaymentsForWith(id, "Paid")))]

\* The stored row of the acting user of request i.
StoredUser(i) == UsersById(reqs[i].uid)[1]

\* A dashboard read that was answered 200.
Answered(i) == IsMe(i) /\ Done(i) /\ Status(i) = 200

\* The dashboard of a stored Worker carries exactly the Worker fields, that
\* of a stored Employer exactly the Employer fields.
StoredTypeSelects ==
    \A i \in Reqs :
        Answered(i) =>
            /\ StoredUser(i).account_type = "Worker" =>
                   reqs[i].resp.data.metrics = WorkerFields(reqs[i].uid)
            /\ StoredUser(i).account_type = "Employer" =>
                   reqs[i].resp.data.metrics = EmployerFields(reqs[i].uid)

\* Every stored account_type is Worker or Employer.
TwoAccountTypes ==
    \A k \in 1..Len(users) : users[k].account_type \in {"Worker", "Employer"}

\* C13 as stated: the stored account_type alone selects the aggregation of
\* GET /api/users/me (Worker fields over the worker's Payments, Employer
\* fields over the Payments of the employer's jobs), and every registered user
\* is a Worker or an Employer.
C13_AccountTypeSelects == StoredTypeSelects /\ TwoAccountTypes

\* What the code does with any other stored account_type: the Worker fields.
OtherTypesAsWorker ==
    \A i \in Reqs :
        Answered(i) /\ StoredUser(i).account_type # "Employer" =>
            reqs[i].resp.data.metrics = WorkerFields(reqs[i].uid)

\* A user registered with an account_type that is neither Worker nor Employer
\* was answered 201 and then read a dashboard.
OtherTypeServed ==
    \E i, j \in Reqs :
        /\ IsRegister(i) /\ Status(i) = 201
        /\ reqs[i].body.account_type \notin {"Worker", "Employer"}
        /\ Answered(j) /\ StoredUser(j).email = reqs[i].body.email

-----------------------------------------------------------------------------
(* The scope specification: a login, then a per-user read with any user_id *)
(* parameter, over any Reviews or Applications table                        *)

\* Rows of the table the read is over.
MaxScopeRows == 2

ReviewRows ==
    [reviewer_id : {2}, reviewee_id : {1, 2, 3}, comment : {"good"}, rating : {5},
     created_at : {0, 30}]

\* Applications to the job of Bo, to the job of user 3 and to a job that is
\* not in Jobs.
ApplicationRows ==
    [job_id : {1, 2, 7}, worker_id : {1, 3}, status : {"Pending"}, applied_at : {0, 30}]

InitScope ==
    /\ users = DashUsers
    /\ jobs = AccountJobs
    /\ payments = <<>>
    /\ \/ reviews \in Tables(ReviewRows, MaxScopeRows) /\ applications = <<>>
       \/ reviews = <<>> /\ applications \in Tables(ApplicationRows, MaxScopeRows)
    /\ contactMessages = <<>>
    /\ reqs = <<>>
    /\ now = 0
    /\ uniqueEmail = TRUE

\* Logins of the three users, and one with a password of another user.
ScopeLogins ==
    DashLogins \cup {[NoBody EXCEPT !.email = "ana@x.com", !.password = "q"]}

PerUserPaths == ProtectedPaths \ {"/api/users/me"}

\* The user_id parameters a client may add to the request.
UserIdParameters == {NoUserId, UserId(1), UserId(2), UserId(3)}

NextScope ==
    \/ /\ reqs = <<>>
       /\ \E b \in ScopeLogins : LoginArrive("login", b)
    \/ \E i \in 1..Len(reqs) : LoginLookup(i)
    \/ /\ Len(reqs) = 1
       /\ \E path \in PerUserPaths, t \in IssuedTokens, q \in UserIdParameters :
             ProtectedArriveWith(Handler(path), Bearer(t), q)
    \/ \E i \in 1..Len(reqs) : ListQuery(i)

SpecScope == InitScope /\ [][NextScope]_vars

-----------------------------------------------------------------------------
(* C14 *)

\* The User rows whose email and password are those of the body b.
Matching(b) ==
    {k \in 1..Len(users) : users[k].email = b.email /\ users[k].password = b.password}

\* A successful login: its token carries the user_id of a row that matched.
TokenOfMatchedUser ==
    \A i \in Reqs :
        IsLogin(i) /\ Status(i) = 200 =>
            \E k \in Matching(reqs[i].body) :
                reqs[i].resp.token.payload.user_id = users[k].user_id

\* Request i is a read of path.
IsRead(i, path) ==
    \E n \in DOMAIN Registered(path) : reqs[i].route = Registered(path)[n]

\* The rows of each read that belong to user id.
OwnReviews(id) == {k \in 1..Len(reviews) : reviews[k].reviewee_id = id}

OwnApplications(id) == {k \in 1..Len(applications) : applications[k].worker_id = id}

OwnJobApplications(id) ==
    {k \in 1..Len(applications) :
        \E j \in 1..Len(jobs) :
            jobs[j].job_id = applications[k].job_id /\ jobs[j].employer_id = id}

OwnRows(i, id) ==
    IF IsRead(i, "/api/users/me/reviews") THEN OwnReviews(id)
    ELSE IF IsRead(i, "/api/users/me/applications") THEN OwnApplications(id)
    ELSE OwnJobApplications(id)

\* The rows the answer of request i returns.
Returned(i) == {reqs[i].resp.data.ids[n] : n \in DOMAIN reqs[i].resp.data.ids}

\* Request i is a per-user read with a token login issued.
ScopedRead(i) ==
    /\ \E path \in PerUserPaths : IsRead(i, path)
    /\ GoodToken(i)

\* A per-user read acts under the user_id of its token, whatever user_id
\* parameter the request carries, and returns each row of that user once and
\* no other row.
ReadsAreScoped ==
    \A i \in Reqs :
        ScopedRead(i) =>
            /\ reqs[i].uid = reqs[i].auth.cred.payload.user_id
            /\ Done(i) =>
                  /\ Status(i) = 200
                  /\ Returned(i) = OwnRows(i, reqs[i].auth.cred.payload.user_id)
                  /\ Len(reqs[i].resp.data.ids) = Cardinality(Returned(i))

\* C14: the token of a successful login carries the user_id of the User row
\* whose email and password matched, and a read of /api/users/me/reviews,
\* /applications or /job-applications with that token returns exactly the
\* rows of that user_id (reviewee_id, worker_id, employer_id of the job): no
\* row of another user, and no user_id parameter changes the acting id.
C14_ReadsScopedToToken == TokenOfMatchedUser /\ ReadsAreScoped

\* A read carrying the user_id of another user as a parameter, over a table
\* with a row of the token's user and a row of another, returned the one row
\* of the token's user.
C14_Witness ==
    \E i \in Reqs :
        /\ ScopedRead(i) /\ Done(i)
        /\ reqs[i].query.user_id.given
        /\ reqs[i].query.user_id.num # reqs[i].auth.cred.payload.user_id
        /\ Cardinality(Returned(i)) = 1
        /\ Len(reviews) + Len(applications) = 2
        /\ OwnRows(i, reqs[i].query.user_id.num) \ Returned(i) # {}

=============================================================================
